---- MODULE Spec2Model ----
(***************************************************************************)
(* SharedTensor (encoding/nn/syncbn.py): the two-phase rendezvous that     *)
(* nGPUs worker threads use to all-reduce their (sum, sum-of-squares)      *)
(* pair once per forward pass.  One thread per device calls __call__; the  *)
(* model follows the body of __call__ line by line, with the mutex, the    *)
(* condition variable built on it, and the unlocked final read.            *)
(***************************************************************************)
EXTENDS Integers, Sequences, FiniteSets, TLC

\* ---------------------------------------------------------------- bounds
\* number of devices, SharedTensor(nGPUs)
nGPUs == 2
\* consecutive calls each worker makes
MaxRounds == 3
\* tensor entries are drawn from 1..MaxVal
MaxVal == 2
\* a caller that breaks the contract passes 1..MaxArity values instead of 2
MaxArity == 3
\* eval-mode forward passes each worker makes
MaxEvals == 1

\* ------------------------------------------------------------ constants
\* eps in units of 1e-6, momentum in units of 1e-2
\* def __init__(self, num_features, eps=1e-5, momentum=0.1, **kwargs)
DefaultEps == 10
DefaultMomentum == 10
\* super().__init__(num_features, eps=1e-5, momentum=0.1, **kwargs)
SuperEps == 10
SuperMomentum == 10
\* values a caller of the constructor passes: 1e-5 or 1e-3, 0.1 or 0.01
EpsArgs == {DefaultEps, 100 * DefaultEps}
MomentumArgs == {DefaultMomentum, DefaultMomentum \div 10}

Workers == 1..nGPUs
\* the workers and one thread more than the SharedTensor was built for
Threads == 1..(nGPUs + 1)
Rounds == 1..MaxRounds
Vals == 1..MaxVal

\* ----------------------------------------------------------------- state
VARIABLES
    list,          \* self.list
    push_tasks,    \* self.push_tasks
    reduce_tasks,  \* self.reduce_tasks
    mutex,         \* self.mutex: 0 when free, else the worker holding it
    pc,            \* position of each worker inside (or outside) __call__
    inputs,        \* the argument of each worker's current call
    idx,           \* the local idx of each worker's current call
    result,        \* what the call read at line 165 (<<>> until read)
    calls,         \* history: number of calls each worker has started
    pushed,        \* history: per round, the contributions appended, in order
    issued,        \* history: per round, the idx values handed out, in order
    reduced,       \* history: per round, number of allreduce invocations
    given,         \* history: eps and momentum as passed to the constructor
    eps,           \* self.eps of the layer
    momentum,      \* self.momentum of the layer
    evals          \* history: eval-mode forward passes of each worker

vars == <<list, push_tasks, reduce_tasks, mutex, pc, inputs, idx, result,
          calls, pushed, issued, reduced, given, eps, momentum, evals>>

shared == <<list, push_tasks, reduce_tasks>>
history == <<calls, pushed, issued, reduced>>
layer == <<given, eps, momentum, evals>>

\* ------------------------------------------------------------- helpers
RECURSIVE SumAt(_, _, _, _)
\* sum of L[k], L[k+a], L[k+2a], ... (k counted from 1) while inside L
SumAt(L, a, k, acc) ==
    IF k > Len(L) THEN acc ELSE SumAt(L, a, k + a, acc + L[k])

\* encoding.parallel.allreduce(a, *L): every group of a values is replaced
\* by the element-wise sum over all groups
allreduce(a, L) ==
    [i \in 1..Len(L) |-> SumAt(L, a, ((i - 1) % a) + 1, 0)]

\* the reducer is deterministic: it raises on a buffer it cannot combine,
\* every time it is given that buffer; 0 stands for a value it cannot combine
raises(L) == \E i \in DOMAIN L : L[i] = 0

\* Condition.notify_all(): every thread blocked in wait() is woken and
\* has to take the mutex again before it returns from wait()
notify_all(p) ==
    [u \in Threads |->
        IF p[u] = "w150" THEN "n150"
        ELSE IF p[u] = "w163" THEN "n163"
        ELSE p[u]]

\* mutant of SharedTensorInit: the counters start one short of nGPUs
SharedTensorInit_OffByOne ==
    /\ list = <<>>
    /\ push_tasks = nGPUs - 1
    /\ reduce_tasks = nGPUs - 1
    /\ mutex = 0

\* SharedTensor.__init__ followed by _clear()
SharedTensorInit ==
    /\ list = <<>>
    /\ push_tasks = nGPUs
    /\ reduce_tasks = nGPUs
    /\ mutex = 0

\* _SyncBatchNorm.__init__(num_features, eps=e, momentum=m): the arguments
\* are not handed on, super().__init__ gets the literals 1e-5 and 0.1 and
\* stores them as self.eps and self.momentum; then the SharedTensor is built
Construct(e, m) ==
    /\ given = [eps |-> e, momentum |-> m]
    /\ eps = SuperEps
    /\ momentum = SuperMomentum
    /\ evals = [t \in Threads |-> 0]
    /\ SharedTensorInit
    /\ pc = [t \in Threads |-> "idle"]
    /\ inputs = [t \in Threads |-> <<>>]
    /\ idx = [t \in Threads |-> 0]
    /\ result = [t \in Threads |-> <<>>]
    /\ calls = [t \in Threads |-> 0]
    /\ pushed = [r \in Rounds |-> <<>>]
    /\ issued = [r \in Rounds |-> <<>>]
    /\ reduced = [r \in Rounds |-> 0]

\* the layer built with eps and momentum omitted
Init == Construct(DefaultEps, DefaultMomentum)

\* the layer built with any eps and momentum
InitCtor == \E e \in EpsArgs, m \in MomentumArgs : Construct(e, m)

\* a thread takes the mutex (with self.mutex / with self.all_tasks_done)
Acquire(t, from, to) ==
    /\ pc[t] = from
    /\ mutex = 0
    /\ mutex' = t
    /\ pc' = [pc EXCEPT ![t] = to]
    /\ UNCHANGED <<shared, inputs, idx, result, history, layer>>

\* ------------------------------------------------------------ __call__
\* pushed keeps the values of a round for as long as some worker's latest
\* call belongs to it: t starting its next call is the last to leave round r
Left(t, r) == calls[t] = r /\ \A u \in Workers \ {t} : calls[u] > r

\* worker t enters __call__ with a contribution of the given length
Enter(t, v) ==
    /\ pc[t] = "idle"
    /\ calls[t] < MaxRounds
    /\ pc' = [pc EXCEPT ![t] = "l140"]
    /\ inputs' = [inputs EXCEPT ![t] = v]
    /\ result' = [result EXCEPT ![t] = <<>>]
    /\ calls' = [calls EXCEPT ![t] = @ + 1]
    /\ pushed' = [r \in Rounds |-> IF Left(t, r) THEN <<>> ELSE pushed[r]]
    /\ UNCHANGED <<shared, mutex, idx, issued, reduced, layer>>

\* forward(): xsum, xsquare = self.sharedT(sum_square(...)), two values
Call(t) ==
    \E x \in Vals, y \in Vals : Enter(t, <<x, y>>)

\* a caller outside the contract: any number of values in 1..MaxArity
CallAny(t) ==
    \E a \in 1..MaxArity : \E v \in [1..a -> Vals] : Enter(t, v)

\* the first call of a worker on a freshly constructed SharedTensor
CallOnce(t) == calls[t] = 0 /\ Call(t)

\* a call whose two values may include one the reducer cannot combine
CallRaise(t) ==
    \E x \in 0..1, y \in 0..1 : Enter(t, <<x, y>>)

\* a worker thread ends between two calls and never calls again
Quit(t) ==
    /\ pc[t] = "idle"
    /\ pc' = [pc EXCEPT ![t] = "gone"]
    /\ UNCHANGED <<shared, mutex, inputs, idx, result, history, layer>>

\* mutant of ForwardEval: the early return of lines 38-41 is missing and
\* the eval-mode forward goes on to self.sharedT(...)
ForwardEval_CallsBarrier(t) ==
    /\ pc[t] = "idle"
    /\ evals[t] < MaxEvals
    /\ calls[t] < MaxRounds
    /\ evals' = [evals EXCEPT ![t] = @ + 1]
    /\ pc' = [pc EXCEPT ![t] = "l140"]
    /\ \E x \in Vals, y \in Vals : inputs' = [inputs EXCEPT ![t] = <<x, y>>]
    /\ result' = [result EXCEPT ![t] = <<>>]
    /\ calls' = [calls EXCEPT ![t] = @ + 1]
    /\ pushed' = [r \in Rounds |-> IF Left(t, r) THEN <<>> ELSE pushed[r]]
    /\ UNCHANGED <<shared, mutex, idx, issued, reduced, given, eps, momentum>>

\* forward() with self.training false, lines 34-41: the output comes from
\* the running statistics and the SharedTensor is not called
ForwardEval(t) ==
    /\ pc[t] = "idle"
    /\ evals[t] < MaxEvals
    /\ evals' = [evals EXCEPT ![t] = @ + 1]
    /\ UNCHANGED <<shared, mutex, pc, inputs, idx, result, history,
                   given, eps, momentum>>

\* line 140: with self.mutex
PushLock(t) == Acquire(t, "l140", "l141")

\* mutant of PushClear: _clear() restores the counters but keeps self.list
PushClear_KeepList(t) ==
    /\ pc[t] = "l141"
    /\ IF push_tasks = 0
         THEN /\ push_tasks' = nGPUs
              /\ reduce_tasks' = nGPUs
              /\ UNCHANGED list
         ELSE UNCHANGED shared
    /\ pc' = [pc EXCEPT ![t] = "l143"]
    /\ UNCHANGED <<mutex, inputs, idx, result, history, layer>>

\* mutant of PushClear: the reset of lines 141-142 is left out
PushClear_Missing(t) ==
    /\ pc[t] = "l141"
    /\ pc' = [pc EXCEPT ![t] = "l143"]
    /\ UNCHANGED <<shared, mutex, inputs, idx, result, history, layer>>

\* lines 141-142: if self.push_tasks == 0: self._clear()
PushClear(t) ==
    /\ pc[t] = "l141"
    /\ IF push_tasks = 0
         THEN /\ list' = <<>>
              /\ push_tasks' = nGPUs
              /\ reduce_tasks' = nGPUs
         ELSE UNCHANGED shared
    /\ pc' = [pc EXCEPT ![t] = "l143"]
    /\ UNCHANGED <<mutex, inputs, idx, result, history, layer>>

\* line 143: self.list.extend(list(*inputs))
PushExtend(t) ==
    /\ pc[t] = "l143"
    /\ list' = list \o inputs[t]
    /\ pushed' = [pushed EXCEPT ![calls[t]] = Append(@, inputs[t])]
    /\ inputs' = [inputs EXCEPT ![t] = <<>>]
    /\ pc' = [pc EXCEPT ![t] = "l144"]
    /\ UNCHANGED <<push_tasks, reduce_tasks, mutex, idx, result,
                   calls, issued, reduced, layer>>

\* mutant of PushIdx: idx is computed after the decrement of push_tasks
PushIdx_AfterDecrement(t) ==
    /\ pc[t] = "l144"
    /\ push_tasks' = push_tasks - 1
    /\ idx' = [idx EXCEPT ![t] = nGPUs - push_tasks']
    /\ issued' = [issued EXCEPT ![calls[t]] = Append(@, nGPUs - push_tasks')]
    /\ mutex' = 0
    /\ pc' = [pc EXCEPT ![t] = "l146"]
    /\ UNCHANGED <<list, reduce_tasks, inputs, result, calls, pushed, reduced, layer>>

\* lines 144-145 and the end of the with block
PushIdx(t) ==
    /\ pc[t] = "l144"
    /\ idx' = [idx EXCEPT ![t] = nGPUs - push_tasks]
    /\ issued' = [issued EXCEPT ![calls[t]] = Append(@, nGPUs - push_tasks)]
    /\ push_tasks' = push_tasks - 1
    /\ mutex' = 0
    /\ pc' = [pc EXCEPT ![t] = "l146"]
    /\ UNCHANGED <<list, reduce_tasks, inputs, result, calls, pushed, reduced, layer>>

\* line 146: with self.all_tasks_done
PushWaitLock(t) == Acquire(t, "l146", "l147")

\* lines 147-148: if self.push_tasks == 0: notify_all()
PushNotify(t) ==
    /\ pc[t] = "l147"
    /\ pc' = [IF push_tasks = 0 THEN notify_all(pc) ELSE pc EXCEPT ![t] = "l149"]
    /\ UNCHANGED <<shared, mutex, inputs, idx, result, history, layer>>

\* mutant of PushWait: the push phase does not wait for the other workers
PushWait_NoLoop(t) ==
    /\ pc[t] = "l149"
    /\ mutex' = 0
    /\ pc' = [pc EXCEPT ![t] = "l152"]
    /\ UNCHANGED <<shared, inputs, idx, result, history, layer>>

\* lines 149-150: while self.push_tasks: wait(); wait() gives the mutex up
PushWait(t) ==
    /\ pc[t] = "l149"
    /\ mutex' = 0
    /\ pc' = [pc EXCEPT ![t] = IF push_tasks # 0 THEN "w150" ELSE "l152"]
    /\ UNCHANGED <<shared, inputs, idx, result, history, layer>>

\* line 150: a notified thread takes the mutex again and tests the loop
PushWake(t) == Acquire(t, "n150", "l149")

\* line 152: with self.mutex
PullLock(t) == Acquire(t, "l152", "l153")

\* mutant of PullBranch: the else branch runs the reducer as well
PullBranch_ElseReduces(t) ==
    /\ pc[t] = "l153"
    /\ IF reduce_tasks = nGPUs
         THEN /\ pc' = [pc EXCEPT ![t] = "l154"]
              /\ UNCHANGED <<list, reduce_tasks, mutex>>
         ELSE /\ list' = allreduce(2, list)
              /\ reduce_tasks' = reduce_tasks - 1
              /\ mutex' = 0
              /\ pc' = [pc EXCEPT ![t] = "l159"]
    /\ UNCHANGED <<push_tasks, inputs, idx, result, history, layer>>

\* lines 153, 157-158: the branch on reduce_tasks == nGPUs
PullBranch(t) ==
    /\ pc[t] = "l153"
    /\ IF reduce_tasks = nGPUs
         THEN /\ pc' = [pc EXCEPT ![t] = "l154"]
              /\ UNCHANGED <<reduce_tasks, mutex>>
         ELSE /\ reduce_tasks' = reduce_tasks - 1
              /\ mutex' = 0
              /\ pc' = [pc EXCEPT ![t] = "l159"]
    /\ UNCHANGED <<list, push_tasks, inputs, idx, result, history, layer>>

\* mutant of PullAssert: the length of the buffer is not checked
PullAssert_Skipped(t) ==
    /\ pc[t] = "l154"
    /\ pc' = [pc EXCEPT ![t] = "l155"]
    /\ UNCHANGED <<shared, mutex, inputs, idx, result, history, layer>>

\* line 154: assert(len(self.list) == 2 * self.nGPUs)
PullAssert(t) ==
    /\ pc[t] = "l154"
    /\ IF Len(list) = 2 * nGPUs
         THEN /\ pc' = [pc EXCEPT ![t] = "l155"]
              /\ UNCHANGED mutex
         ELSE /\ pc' = [pc EXCEPT ![t] = "AssertionError"]
              /\ mutex' = 0
    /\ UNCHANGED <<shared, inputs, idx, result, history, layer>>

\* mutant of PullReduce: the reducing branch forgets reduce_tasks -= 1
PullReduce_NoDecrement(t) ==
    /\ pc[t] = "l155"
    /\ list' = allreduce(2, list)
    /\ reduced' = [reduced EXCEPT ![calls[t]] = @ + 1]
    /\ mutex' = 0
    /\ pc' = [pc EXCEPT ![t] = "l159"]
    /\ UNCHANGED <<push_tasks, reduce_tasks, inputs, idx, result, calls,
                   pushed, issued, layer>>

\* mutant of PullReduce: reduce_tasks -= 1 comes before the call of the
\* reducer, so that it is done also when the reducer raises
PullReduce_DecrementFirst(t) ==
    /\ pc[t] = "l155"
    /\ reduce_tasks' = reduce_tasks - 1
    /\ mutex' = 0
    /\ IF raises(list)
         THEN /\ pc' = [pc EXCEPT ![t] = "ReducerError"]
              /\ UNCHANGED <<list, reduced>>
         ELSE /\ list' = allreduce(2, list)
              /\ reduced' = [reduced EXCEPT ![calls[t]] = @ + 1]
              /\ pc' = [pc EXCEPT ![t] = "l159"]
    /\ UNCHANGED <<push_tasks, inputs, idx, result, calls, pushed, issued, layer>>

\* lines 155-156: self.list = allreduce(2, *self.list); reduce_tasks -= 1.
\* When allreduce raises, the assignment and the decrement are not executed
\* and the with block releases the mutex on the way out.
PullReduce(t) ==
    /\ pc[t] = "l155"
    /\ mutex' = 0
    /\ IF raises(list)
         THEN /\ pc' = [pc EXCEPT ![t] = "ReducerError"]
              /\ UNCHANGED <<list, reduce_tasks, reduced>>
         ELSE /\ list' = allreduce(2, list)
              /\ reduced' = [reduced EXCEPT ![calls[t]] = @ + 1]
              /\ reduce_tasks' = reduce_tasks - 1
              /\ pc' = [pc EXCEPT ![t] = "l159"]
    /\ UNCHANGED <<push_tasks, inputs, idx, result, calls, pushed, issued, layer>>

\* line 159: with self.all_tasks_done
PullWaitLock(t) == Acquire(t, "l159", "l160")

\* mutant of PullNotify: the last thread of the reduce phase wakes nobody
PullNotify_Missing(t) ==
    /\ pc[t] = "l160"
    /\ pc' = [pc EXCEPT ![t] = "l162"]
    /\ UNCHANGED <<shared, mutex, inputs, idx, result, history, layer>>

\* lines 160-161: if self.reduce_tasks == 0: notify_all()
PullNotify(t) ==
    /\ pc[t] = "l160"
    /\ pc' = [IF reduce_tasks = 0 THEN notify_all(pc) ELSE pc EXCEPT ![t] = "l162"]
    /\ UNCHANGED <<shared, mutex, inputs, idx, result, history, layer>>

\* mutant of PullWait: the reduce phase does not wait for the other workers
PullWait_NoLoop(t) ==
    /\ pc[t] = "l162"
    /\ mutex' = 0
    /\ pc' = [pc EXCEPT ![t] = "l165"]
    /\ UNCHANGED <<shared, inputs, idx, result, history, layer>>

\* lines 162-163: while self.reduce_tasks: wait()
PullWait(t) ==
    /\ pc[t] = "l162"
    /\ mutex' = 0
    /\ pc' = [pc EXCEPT ![t] = IF reduce_tasks # 0 THEN "w163" ELSE "l165"]
    /\ UNCHANGED <<shared, inputs, idx, result, history, layer>>

\* line 163: a notified thread takes the mutex again and tests the loop
PullWake(t) == Acquire(t, "n163", "l162")

\* line 165, first element: self.list[2*idx], read without the mutex
ReadFirst(t) ==
    /\ pc[t] = "l165"
    /\ IF 2 * idx[t] + 1 <= Len(list)
         THEN /\ result' = [result EXCEPT ![t] = <<list[2 * idx[t] + 1]>>]
              /\ pc' = [pc EXCEPT ![t] = "l165b"]
         ELSE /\ pc' = [pc EXCEPT ![t] = "IndexError"]
              /\ UNCHANGED result
    /\ UNCHANGED <<shared, mutex, inputs, idx, history, layer>>

\* line 165, second element: self.list[2*idx+1], then return
ReadSecond(t) ==
    /\ pc[t] = "l165b"
    /\ IF 2 * idx[t] + 2 <= Len(list)
         THEN /\ result' = [result EXCEPT ![t] = Append(@, list[2 * idx[t] + 2])]
              /\ pc' = [pc EXCEPT ![t] = "idle"]
         ELSE /\ pc' = [pc EXCEPT ![t] = "IndexError"]
              /\ UNCHANGED result
    /\ UNCHANGED <<shared, mutex, inputs, idx, history, layer>>

Step(t) ==
    \/ PushLock(t) \/ PushClear(t) \/ PushExtend(t) \/ PushIdx(t)
    \/ PushWaitLock(t) \/ PushNotify(t) \/ PushWait(t) \/ PushWake(t)
    \/ PullLock(t) \/ PullBranch(t) \/ PullAssert(t) \/ PullReduce(t)
    \/ PullWaitLock(t) \/ PullNotify(t) \/ PullWait(t) \/ PullWake(t)
    \/ ReadFirst(t) \/ ReadSecond(t)

Next == \E t \in Workers : Call(t) \/ Step(t)

Spec == Init /\ [][Next]_vars

\* the same threads, each call with a contribution of any length
NextAny == \E t \in Workers : CallAny(t) \/ Step(t)

SpecAny == Init /\ [][NextAny]_vars

\* every thread that can run is eventually scheduled, and a thread that
\* keeps finding the mutex free now and then eventually takes it
FairSpec == Spec /\ \A t \in Workers : SF_vars(Call(t) \/ Step(t))

\* one round on a fresh SharedTensor: every worker calls once
NextOnce == \E t \in Workers : CallOnce(t) \/ Step(t)

SpecOnce == Init /\ [][NextOnce]_vars

FairSpecOnce == SpecOnce /\ \A t \in Workers : SF_vars(CallOnce(t) \/ Step(t))

\* workers may drop out: the rounds after a worker has gone have fewer
\* than nGPUs callers
NextFew == \E t \in Workers : Call(t) \/ Quit(t) \/ Step(t)

SpecFew == Init /\ [][NextFew]_vars

\* nGPUs + 1 threads call once each, all of them inside __call__ before
\* any of them goes on
NextMore ==
    \E t \in Threads :
        \/ CallOnce(t)
        \/ (\A u \in Threads : calls[u] = 1) /\ Step(t)

SpecMore == Init /\ [][NextMore]_vars

\* rounds in which the reducer may raise, under a fair scheduler
NextRaise == \E t \in Workers : CallRaise(t) \/ Step(t)

SpecRaise == Init /\ [][NextRaise]_vars

FairSpecRaise ==
    SpecRaise /\ \A t \in Workers : SF_vars(CallRaise(t) \/ Step(t))

\* forward passes in training mode and in evaluation mode
NextLayer == \E t \in Workers : Call(t) \/ ForwardEval(t) \/ Step(t)

SpecLayer == Init /\ [][NextLayer]_vars

\* a layer built with any eps and momentum, then one round
SpecCtor == InitCtor /\ [][NextOnce]_vars

\* ------------------------------------------------------------ vocabulary
RECURSIVE Flat(_)
\* the contributions of a round laid out one after the other
Flat(S) == IF S = <<>> THEN <<>> ELSE Head(S) \o Flat(Tail(S))

\* the pair of column sums of a round's contributions
Sums(S) == <<SumAt(Flat(S), 2, 1, 0), SumAt(Flat(S), 2, 2, 0)>>

\* worker u's call of round r has returned
Returned(u, r) == calls[u] > r \/ (calls[u] = r /\ pc[u] = "idle")

\* worker u's call of round r has left its pull section (lines 152-158)
PullDone(u, r) ==
    \/ calls[u] > r
    \/ /\ calls[u] = r
       /\ pc[u] \in {"l159", "l160", "l162", "w163", "n163", "l165", "l165b",
                     "idle", "IndexError"}

\* worker t is inside its call and has taken the mutex of the push section
InCall(t) == pc[t] \notin {"idle", "l140"}

\* ----------------------------------------------------------------- C1
\* C1: every call that returns, in any round, returns the pair of
\* element-wise sums of the nGPUs contributions of its own round.
C1_ReturnsRoundSums ==
    \A t \in Workers :
        (pc[t] = "idle" /\ calls[t] > 0) => result[t] = Sums(pushed[calls[t]])

\* ----------------------------------------------------------------- C2
\* C2: in every round the reducer runs exactly once: it has run once as soon
\* as one thread of the round has left the pull section and never a second
\* time, and a thread entering the pull section sees reduce_tasks == nGPUs
\* exactly when no thread of its round has been through it before.
C2_ReduceOncePerRound ==
    /\ \A r \in Rounds :
          reduced[r] = IF \E u \in Workers : PullDone(u, r) THEN 1 ELSE 0
    /\ \A t \in Workers :
          pc[t] = "l153" =>
             ((reduce_tasks = nGPUs) <=> ~ \E u \in Workers : PullDone(u, calls[t]))

C2_Witness ==
    /\ reduced[2] = 1
    /\ \A u \in Workers : PullDone(u, 2)

\* ----------------------------------------------------------------- C3
\* C3: under fair scheduling every call that has started eventually returns,
\* round after round.
C3_EveryCallReturns ==
    \A t \in Workers : (pc[t] # "idle") ~> (pc[t] = "idle")

\* ----------------------------------------------------------------- C4
\* C4: while a call of round r+1 is in or past its push section, every call
\* of round r has returned (it has left the wait and read its slice).
C4_PushAfterPreviousRoundRead ==
    \A t, u \in Workers : InCall(t) => Returned(u, calls[t] - 1)

\* ----------------------------------------------------------------- C5
\* C5: the idx values handed out in one round are pairwise different and lie
\* in 0..nGPUs-1, so that the nGPUs values of a full round are a permutation
\* of 0..nGPUs-1.
C5_IdxPermutation ==
    \A r \in Rounds :
        /\ Len(issued[r]) <= nGPUs
        /\ \A i \in DOMAIN issued[r] : issued[r][i] \in 0..(nGPUs - 1)
        /\ \A i, j \in DOMAIN issued[r] : i # j => issued[r][i] # issued[r][j]
        /\ \A t \in Workers :
              (calls[t] = r /\ pc[t] \notin {"idle", "l140", "l141", "l143", "l144"})
                 => \E i \in DOMAIN issued[r] : issued[r][i] = idx[t]

C5_Witness ==
    /\ Len(issued[2]) = nGPUs
    /\ {issued[2][i] : i \in DOMAIN issued[2]} = 0..(nGPUs - 1)

\* ----------------------------------------------------------------- C6
\* C6: once all calls of round r have returned, the first call of round r+1
\* finds push_tasks == 0 and appends to a buffer that _clear has reset, and
\* every call of round r+1 returns the sums of the contributions of round
\* r+1 only.
C6_NextRoundIndependent ==
    \A t \in Workers :
        (calls[t] >= 2 /\ \A u \in Workers : Returned(u, calls[t] - 1)) =>
            /\ (pc[t] = "l141" /\ issued[calls[t]] = <<>>) => push_tasks = 0
            /\ (pc[t] = "l143" /\ issued[calls[t]] = <<>>) =>
                  (list = <<>> /\ push_tasks = nGPUs /\ reduce_tasks = nGPUs)
            /\ pc[t] = "idle" => result[t] = Sums(pushed[calls[t]])

\* ----------------------------------------------------------------- C7
\* C7: when the reducer is about to run for a round, the buffer is exactly
\* the values the nGPUs callers of that round appended and nothing of the
\* following round; no caller is in the pull section while push_tasks > 0.
C7_ReducerInput ==
    \A t \in Workers :
        /\ pc[t] \in {"l153", "l154", "l155"} => push_tasks = 0
        /\ pc[t] = "l155" =>
              /\ list = Flat(pushed[calls[t]])
              /\ Len(pushed[calls[t]]) = nGPUs
              /\ Len(issued[calls[t]]) = nGPUs
              /\ Len(list) = 2 * nGPUs
              /\ calls[t] < MaxRounds => pushed[calls[t] + 1] = <<>>

C7_Witness == \E t \in Workers : pc[t] = "l155" /\ calls[t] = 2

\* ----------------------------------------------------------------- C8
\* C8: whenever the mutex is free the buffer holds two values for each of
\* the nGPUs - push_tasks workers that have pushed, and it is empty exactly
\* when push_tasks == nGPUs.
C8_BufferLength ==
    mutex = 0 =>
        /\ Len(list) = 2 * (nGPUs - push_tasks)
        /\ (list = <<>>) <=> (push_tasks = nGPUs)

C8_Witness ==
    /\ mutex = 0
    /\ push_tasks > 0
    /\ push_tasks < nGPUs
    /\ \E t \in Workers : calls[t] = 2 /\ pc[t] = "l146"

\* ----------------------------------------------------------------- C9
\* C9: the reset inside __call__ (push_tasks == 0 at line 141) only fires
\* when reduce_tasks == 0.
C9_ClearOnlyWhenDrained ==
    \A t \in Workers : (pc[t] = "l141" /\ push_tasks = 0) => reduce_tasks = 0

C9_Witness == \E t \in Workers : pc[t] = "l141" /\ push_tasks = 0 /\ calls[t] = 2

\* ---------------------------------------------------------------- C10
\* C10: a caller that reaches the assertion of line 154 with a buffer whose
\* length is not 2 * nGPUs fails with an AssertionError, without invoking
\* the reducer and without changing list or reduce_tasks; when the callers
\* of the round are nGPUs callers with two values each, the assertion holds.
WellFormed(r) ==
    /\ Len(pushed[r]) = nGPUs
    /\ \A i \in DOMAIN pushed[r] : Len(pushed[r][i]) = 2

C10_MalformedRoundHalts ==
    /\ [][\A t \in Workers :
            (pc[t] = "l154" /\ pc'[t] # "l154") =>
                IF Len(list) # 2 * nGPUs
                  THEN /\ pc'[t] = "AssertionError"
                       /\ list' = list
                       /\ reduce_tasks' = reduce_tasks
                       /\ reduced' = reduced
                  ELSE pc'[t] = "l155"]_vars
    /\ [](\A t \in Workers :
            /\ (pc[t] = "l154" /\ WellFormed(calls[t])) => Len(list) = 2 * nGPUs
            /\ pc[t] = "AssertionError" => ~WellFormed(calls[t]))

C10_Witness ==
    \E t \in Workers :
        /\ pc[t] = "AssertionError"
        /\ Len(list) # 2 * nGPUs
        /\ reduce_tasks = nGPUs
        /\ reduced[calls[t]] = 0

\* ---------------------------------------------------------------- C15
\* C15: on a fresh SharedTensor, when each of the nGPUs threads calls once,
\* under fair scheduling all nGPUs calls return their pair.
C15_OneRoundReturns ==
    <>(\A t \in Workers : pc[t] = "idle" /\ calls[t] = 1 /\ Len(result[t]) = 2)

C15_Witness ==
    /\ \A t \in Workers : pc[t] = "idle" /\ calls[t] = 1 /\ Len(result[t]) = 2
    /\ push_tasks = 0
    /\ reduce_tasks = 0

\* ---------------------------------------------------------------- C16
\* C16: a caller that enters the pull section with reduce_tasks < nGPUs
\* does not invoke the reducer; its step decrements reduce_tasks by one and
\* leaves list and push_tasks as they are.
C16_ElseBranchFrame ==
    [][\A t \in Workers :
          (pc[t] = "l153" /\ reduce_tasks < nGPUs /\ pc'[t] # "l153") =>
              /\ pc'[t] = "l159"
              /\ reduce_tasks' = reduce_tasks - 1
              /\ list' = list
              /\ push_tasks' = push_tasks
              /\ reduced' = reduced]_vars

C16_Witness ==
    \E t \in Workers :
        /\ pc[t] = "l159"
        /\ reduce_tasks = 0
        /\ reduced[calls[t]] = 1
        /\ \E u \in Workers \ {t} : PullDone(u, calls[t])

\* ---------------------------------------------------------------- C17
\* C17: at the moment a caller reads its slice at line 165, list holds the
\* two positions 2*idx and 2*idx+1.
C17_ReadInBounds ==
    \A t \in Workers :
        pc[t] \in {"l165", "l165b"} => Len(list) >= 2 * idx[t] + 2

\* ---------------------------------------------------------------- C12
\* C12: in a round that fewer than nGPUs threads ever call (a worker has
\* gone before it), no call returns: every caller of the round stays in the
\* push section or its wait, push_tasks stays positive once the round has
\* begun, and the reducer is not invoked for the round.
Short(r) == \E u \in Workers : pc[u] = "gone" /\ calls[u] < r

C12_ShortRoundBlocks ==
    \A r \in Rounds :
        Short(r) =>
            /\ reduced[r] = 0
            /\ issued[r] # <<>> => push_tasks > 0
            /\ \A t \in Workers :
                  calls[t] = r =>
                      pc[t] \in {"l140", "l141", "l143", "l144", "l146", "l147",
                                 "l149", "w150"}

C12_Witness ==
    \E t \in Workers :
        /\ calls[t] = 1
        /\ pc[t] = "w150"
        /\ \A u \in Workers \ {t} : pc[u] = "gone" /\ calls[u] = 0

\* ---------------------------------------------------------------- C13
\* C13 as claimed: when nGPUs + 1 threads call at once, no call returns a
\* result and no call fails with an error.
C13_AllDeadlock ==
    \A t \in Threads :
        /\ ~ (pc[t] = "idle" /\ calls[t] = 1)
        /\ pc[t] \notin {"AssertionError", "IndexError"}

\* the push-phase wait of lines 146-150
PushLoop == {"l146", "l147", "l149", "w150", "n150"}

\* C13 as amended: once all nGPUs + 1 threads have pushed, push_tasks is
\* nGPUs - 1 for good, the thread that pushed last is in the push-phase
\* wait, and a thread that is in the push-phase wait never leaves it: at
\* least one call never returns.
C13_LastPusherBlocks ==
    /\ [](Len(issued[1]) = nGPUs + 1 =>
            /\ push_tasks = nGPUs - 1
            /\ \E t \in Threads : pc[t] \in PushLoop
            /\ \E t \in Threads : ~ Returned(t, 1))
    /\ [][\A t \in Threads :
            (Len(issued[1]) = nGPUs + 1 /\ pc[t] \in PushLoop)
                => pc'[t] \in PushLoop]_vars

C13_Witness ==
    /\ Len(issued[1]) = nGPUs + 1
    /\ \E t \in Threads : pc[t] = "w150"
    /\ \E u \in Threads : pc[u] = "idle" /\ calls[u] = 1 /\ Len(result[u]) = 2

\* ---------------------------------------------------------------- C11
\* C11: when the reducer has raised in a round, every one of the nGPUs
\* calls of that round ends with the reducer's error: none of them goes on
\* to the reduce-phase wait or returns, and under fair scheduling all of
\* them have failed after finitely many steps.
RaisedIn(r) == \E t \in Workers : calls[t] = r /\ pc[t] = "ReducerError"

AllFailed(r) == \A t \in Workers : calls[t] = r /\ pc[t] = "ReducerError"

C14_ArgsUsed == eps = given.eps /\ momentum = given.momentum

\* ---------------------------------------------------------------- C18
\* C18: a forward pass in evaluation mode is one step that does not call the
\* SharedTensor: it leaves list, push_tasks, reduce_tasks, the mutex and the
\* position and call count of every thread as they are.
C18_EvalForwardFrame ==
    [][\A t \in Workers :
          evals'[t] # evals[t] =>
              /\ list' = list
              /\ push_tasks' = push_tasks
              /\ reduce_tasks' = reduce_tasks
              /\ mutex' = mutex
              /\ pc' = pc
              /\ calls' = calls
              /\ pushed' = pushed]_vars

C18_Witness ==
    \E t, u \in Workers :
        /\ evals[t] > 0
        /\ pc[t] = "idle"
        /\ calls[t] = 0
        /\ pc[u] = "w150"

====
